---------------------------- MODULE Spec2Model ----------------------------
(***************************************************************************)
(* Model of pb_02_bizi.py (per-user aggregation of Bizi uses, kept in a    *)
(* list sorted by id, and partial selection of the most active users) and  *)
(* of pb_01_next_day.py (the day after a given date).                      *)
(*                                                                         *)
(* Text is modelled as a tuple of one-character strings, so that split,    *)
(* int and str are computed character by character.  Indices returned by   *)
(* the modelled functions are 0-based, as in the source; a list position k *)
(* of the source is element k + 1 of the corresponding TLA+ sequence.      *)
(***************************************************************************)
EXTENDS Integers, Sequences, FiniteSets, Bags, TLC

VARIABLES
    pc,               \* control point of the running program
    usuarios,         \* the list built by obtener_usos_por_usuario_from_file
    nlineas,          \* number of data lines read from f so far
    leidos,           \* bag of the UsoBizi that convertir has produced so far
    linea,            \* the line most recently read from f
    excepcion,        \* exception propagating out of the call, or "ninguna"
    uso,              \* local uso of obtener_usos_por_usuario_from_file
    esta,             \* local esta of ubicar (first component of buscar)
    posicion,         \* local posicion of ubicar (second component of buscar)
    indice,           \* local indice (value returned by ubicar)
    num_ordenar,      \* argument num_ordenar of ordenar
    i_ordenar,        \* loop variable i of ordenar
    indice_del_mayor, \* local indice_del_mayor of ordenar
    antes,            \* the list as it was when ordenar was called
    fecha,            \* the day, month and year the argument dt is written from
    dt,               \* argument dt of next_date
    resultado         \* outcome of next_date: the string returned or the error

vars == <<pc, usuarios, nlineas, leidos, linea, excepcion, uso, esta, posicion,
          indice, num_ordenar, i_ordenar, indice_del_mayor, antes, fecha, dt,
          resultado>>

bizi_vars == <<usuarios, nlineas, leidos, linea, excepcion, uso, esta, posicion,
               indice, num_ordenar, i_ordenar, indice_del_mayor, antes>>

fecha_vars == <<fecha, dt, resultado>>

---------------------------------------------------------------------------
(* Bounds of the model *)

MaxId == 2          \* user ids range over 0 .. MaxId
MaxLineas == 5      \* a file holds at most MaxLineas data lines
MaxCampos == 6      \* a line holds 1 .. MaxCampos fields
MaxOrdenar == 4     \* num_ordenar ranges over 0 .. MaxOrdenar
MaxDia == 32        \* the day of a date ranges over -1 .. MaxDia
MaxMes == 13        \* the month of a date ranges over -1 .. MaxMes

Ids == 0 .. MaxId

\* the (estacion_retirada, estacion_devolucion) pairs the lines hold
Trayectos == {<<1, 1>>, <<1, 2>>, <<2, 1>>}

---------------------------------------------------------------------------
(* Text: str, int, split, replace, join *)

Digitos == <<"0", "1", "2", "3", "4", "5", "6", "7", "8", "9">>

EsDigito(c) == \E k \in 1 .. 10 : Digitos[k] = c

ValorDigito(c) == (CHOOSE k \in 1 .. 10 : Digitos[k] = c) - 1

EsBlanco(c) == c \in {" ", "\n", "\t", "\r"}

RECURSIVE StrNat(_)
StrNat(n) ==
    IF n < 10 THEN <<Digitos[n + 1]>>
    ELSE StrNat(n \div 10) \o <<Digitos[(n % 10) + 1]>>

\* str(n) of an int
PyStr(n) == IF n < 0 THEN <<"-">> \o StrNat(-n) ELSE StrNat(n)

RECURSIVE QuitarBlancosIzq(_)
QuitarBlancosIzq(s) ==
    IF s # <<>> /\ EsBlanco(Head(s)) THEN QuitarBlancosIzq(Tail(s)) ELSE s

RECURSIVE QuitarBlancosDer(_)
QuitarBlancosDer(s) ==
    IF s # <<>> /\ EsBlanco(s[Len(s)])
    THEN QuitarBlancosDer(SubSeq(s, 1, Len(s) - 1))
    ELSE s

RECURSIVE ValorNat(_)
ValorNat(s) ==
    IF s = <<>> THEN 0
    ELSE 10 * ValorNat(SubSeq(s, 1, Len(s) - 1)) + ValorDigito(s[Len(s)])

\* int(s): surrounding whitespace is dropped, one sign is allowed, and what
\* is left must be a non-empty run of digits; otherwise ValueError.
PyInt(s) ==
    LET t == QuitarBlancosDer(QuitarBlancosIzq(s))
        signo == t # <<>> /\ Head(t) \in {"-", "+"}
        d == IF signo THEN Tail(t) ELSE t
    IN  IF d # <<>> /\ \A k \in 1 .. Len(d) : EsDigito(d[k])
        THEN [ok |-> TRUE,
              val |-> IF signo /\ Head(t) = "-" THEN -ValorNat(d) ELSE ValorNat(d)]
        ELSE [ok |-> FALSE, val |-> 0]

\* s.split(sep) for a one-character sep
RECURSIVE Split(_, _)
Split(s, sep) ==
    IF \E k \in 1 .. Len(s) : s[k] = sep
    THEN LET p == CHOOSE k \in 1 .. Len(s) :
                      s[k] = sep /\ \A q \in 1 .. k - 1 : s[q] # sep
         IN  <<SubSeq(s, 1, p - 1)>> \o Split(SubSeq(s, p + 1, Len(s)), sep)
    ELSE <<s>>

\* s.replace(a, b) for one-character a and b
Replace(s, a, b) == [k \in 1 .. Len(s) |-> IF s[k] = a THEN b ELSE s[k]]

\* sep.join(campos)
RECURSIVE Join(_, _)
Join(campos, sep) ==
    IF campos = <<>> THEN <<>>
    ELSE IF Len(campos) = 1 THEN campos[1]
    ELSE campos[1] \o <<sep>> \o Join(Tail(campos), sep)

---------------------------------------------------------------------------
(* pb_02_bizi.py *)

DELIMITADOR == ";"

UsuarioBizi(id, t, c) ==
    [id |-> id, num_usos_traslado |-> t, num_usos_circular |-> c]

UsoBizi(id, r, d) ==
    [id_usuario |-> id, estacion_retirada |-> r, estacion_devolucion |-> d]

RECURSIVE buscar_bucle(_, _, _, _)
buscar_bucle(us, id_usuario, inf, sup) ==
    IF inf < sup
    THEN LET med == (inf + sup) \div 2
         IN  IF id_usuario > us[med + 1].id
             THEN buscar_bucle(us, id_usuario, med + 1, sup)
             ELSE buscar_bucle(us, id_usuario, inf, med)
    ELSE inf

buscar(us, id_usuario) ==
    IF Len(us) = 0 THEN <<FALSE, 0>>
    ELSE LET inf == buscar_bucle(us, id_usuario, 0, Len(us) - 1)
         IN  <<id_usuario = us[inf + 1].id, inf>>

\* list.insert(p, x) for 0 <= p <= len
Insert(us, p, x) == SubSeq(us, 1, p) \o <<x>> \o SubSeq(us, p + 1, Len(us))

\* ubicar without its step past the last element
ubicar_sin_paso_final(us, id_usuario, est, pos) ==
    IF est THEN [usuarios |-> us, indice |-> pos]
    ELSE [usuarios |-> Insert(us, pos, UsuarioBizi(id_usuario, 0, 0)),
          indice |-> pos]

\* ubicar stepping past the last element without comparing the ids
ubicar_sin_comparar(us, id_usuario, est, pos) ==
    IF est THEN [usuarios |-> us, indice |-> pos]
    ELSE LET p == IF pos = Len(us) - 1 THEN pos + 1 ELSE pos
         IN  [usuarios |-> Insert(us, p, UsuarioBizi(id_usuario, 0, 0)),
              indice |-> p]

\* ubicar after its call of buscar has set esta and posicion
ubicar(us, id_usuario, est, pos) ==
    IF est THEN [usuarios |-> us, indice |-> pos]
    ELSE LET p == IF pos = Len(us) - 1 /\ id_usuario > us[pos + 1].id
                  THEN pos + 1 ELSE pos
         IN  [usuarios |-> Insert(us, p, UsuarioBizi(id_usuario, 0, 0)),
              indice |-> p]

\* convertir taking a estacion_devolucion that is no integer for 0
convertir_sin_validar(lin) ==
    LET elementos == Split(lin, DELIMITADOR)
        e0 == PyInt(elementos[1])
        e2 == PyInt(elementos[3])
        e4 == PyInt(elementos[5])
        error(x) == [excepcion |-> x, uso |-> UsoBizi(0, 0, 0)]
    IN  IF ~e0.ok THEN error("ValueError")
        ELSE IF Len(elementos) < 3 THEN error("IndexError")
        ELSE IF ~e2.ok THEN error("ValueError")
        ELSE IF Len(elementos) < 5 THEN error("IndexError")
        ELSE [excepcion |-> "ninguna", uso |-> UsoBizi(e0.val, e2.val, e4.val)]

convertir(lin) ==
    LET elementos == Split(lin, DELIMITADOR)
        e0 == PyInt(elementos[1])
        e2 == PyInt(elementos[3])
        e4 == PyInt(elementos[5])
        error(x) == [excepcion |-> x, uso |-> UsoBizi(0, 0, 0)]
    IN  IF ~e0.ok THEN error("ValueError")
        ELSE IF Len(elementos) < 3 THEN error("IndexError")
        ELSE IF ~e2.ok THEN error("ValueError")
        ELSE IF Len(elementos) < 5 THEN error("IndexError")
        ELSE IF ~e4.ok THEN error("ValueError")
        ELSE [excepcion |-> "ninguna", uso |-> UsoBizi(e0.val, e2.val, e4.val)]

\* incrementar_traslados adding the use to both counters
incrementar_traslados_doble(usuario) ==
    UsuarioBizi(usuario.id, usuario.num_usos_traslado + 1,
                usuario.num_usos_circular + 1)

incrementar_traslados(usuario) ==
    UsuarioBizi(usuario.id, usuario.num_usos_traslado + 1,
                usuario.num_usos_circular)

\* incrementar_circulares adding the use to the other counter
incrementar_circulares_cruzado(usuario) ==
    UsuarioBizi(usuario.id, usuario.num_usos_traslado + 1,
                usuario.num_usos_circular)

incrementar_circulares(usuario) ==
    UsuarioBizi(usuario.id, usuario.num_usos_traslado,
                usuario.num_usos_circular + 1)

num_usos_totales(usuario) ==
    usuario.num_usos_traslado + usuario.num_usos_circular

RECURSIVE buscar_mayor_bucle(_, _, _)
buscar_mayor_bucle(us, k, mayor) ==
    IF k < Len(us)
    THEN IF num_usos_totales(us[k + 1]) > num_usos_totales(us[mayor + 1])
         THEN buscar_mayor_bucle(us, k + 1, k)
         ELSE buscar_mayor_bucle(us, k + 1, mayor)
    ELSE mayor

\* the scan with >= in place of >
RECURSIVE buscar_mayor_bucle_igual(_, _, _)
buscar_mayor_bucle_igual(us, k, mayor) ==
    IF k < Len(us)
    THEN IF num_usos_totales(us[k + 1]) >= num_usos_totales(us[mayor + 1])
         THEN buscar_mayor_bucle_igual(us, k + 1, k)
         ELSE buscar_mayor_bucle_igual(us, k + 1, mayor)
    ELSE mayor

buscar_indice_del_mayor_igual(us, indice_inicial) ==
    buscar_mayor_bucle_igual(us, indice_inicial + 1, indice_inicial)

\* the scan leaving out the last element of the list
RECURSIVE buscar_mayor_bucle_corto(_, _, _)
buscar_mayor_bucle_corto(us, k, mayor) ==
    IF k < Len(us) - 1
    THEN IF num_usos_totales(us[k + 1]) > num_usos_totales(us[mayor + 1])
         THEN buscar_mayor_bucle_corto(us, k + 1, k)
         ELSE buscar_mayor_bucle_corto(us, k + 1, mayor)
    ELSE mayor

buscar_indice_del_mayor_corto(us, indice_inicial) ==
    buscar_mayor_bucle_corto(us, indice_inicial + 1, indice_inicial)

buscar_indice_del_mayor(us, indice_inicial) ==
    buscar_mayor_bucle(us, indice_inicial + 1, indice_inicial)

Min(a, b) == IF a < b THEN a ELSE b

\* usuarios[a], usuarios[b] = usuarios[b], usuarios[a]
Permutar(us, a, b) ==
    [us EXCEPT ![a + 1] = us[b + 1], ![b + 1] = us[a + 1]]

---------------------------------------------------------------------------
(* The lines a file may hold *)

\* the first n fields of a data line, joined, with its line break
Linea(campos, n) ==
    Join(SubSeq(campos, 1, n), DELIMITADOR) \o <<"\n">>

Campos(c0, c2, c4) ==
    <<c0, <<"a">>, c2, <<"b">>, c4>> \o [k \in 1 .. MaxCampos - 5 |-> <<"c">>]

LineasCorrectas ==
    {Linea(Campos(PyStr(id), PyStr(t[1]), PyStr(t[2])), 5) :
        id \in Ids, t \in Trayectos}

\* the same record cut short or with fields added
LineasOtroNumero ==
    {Linea(Campos(PyStr(0), PyStr(t[1]), PyStr(t[2])), n) :
        t \in Trayectos, n \in (1 .. MaxCampos) \ {5}}

\* five fields, one of the three that are read not an integer
LineasNoEnteras ==
    {Linea(Campos(c, PyStr(1), PyStr(1)), 5) : c \in {<<"x">>, <<>>}}
    \cup {Linea(Campos(PyStr(0), c, PyStr(1)), 5) : c \in {<<"x">>, <<>>}}
    \cup {Linea(Campos(PyStr(0), PyStr(1), c), 5) : c \in {<<"x">>, <<>>}}

Lineas == LineasCorrectas \cup LineasOtroNumero \cup LineasNoEnteras

---------------------------------------------------------------------------
(* usos_por_usuario: obtener_usos_por_usuario_from_file, then ordenar *)

SinUso == UsoBizi(0, 0, 0)

InitBizi ==
    /\ usuarios = <<>>
    /\ nlineas = 0
    /\ leidos = EmptyBag
    /\ linea = <<>>
    /\ excepcion = "ninguna"
    /\ uso = SinUso
    /\ esta = FALSE
    /\ posicion = 0
    /\ indice = 0
    /\ num_ordenar = 0
    /\ i_ordenar = 0
    /\ indice_del_mayor = 0
    /\ antes = <<>>

SinFecha ==
    /\ fecha = <<0, 0, 0>>
    /\ dt = <<>>
    /\ resultado = [tipo |-> "ninguno", valor |-> <<>>]

Init == pc = "leer" /\ InitBizi /\ SinFecha

\* for linea in f: uso = convertir(linea)
Leer ==
    /\ pc = "leer"
    /\ nlineas < MaxLineas
    /\ \E lin \in Lineas :
         LET c == convertir(lin)
         IN  /\ linea' = lin
             /\ nlineas' = nlineas + 1
             /\ IF c.excepcion = "ninguna"
                THEN /\ uso' = c.uso
                     /\ leidos' = leidos (+) SetToBag({c.uso})
                     /\ pc' = "buscar"
                     /\ UNCHANGED excepcion
                ELSE /\ excepcion' = c.excepcion
                     /\ pc' = "error"
                     /\ UNCHANGED <<uso, leidos>>
    /\ UNCHANGED <<usuarios, esta, posicion, indice, num_ordenar, i_ordenar,
                   indice_del_mayor, antes>>
    /\ UNCHANGED fecha_vars

\* esta, posicion = buscar(usuarios, id_usuario)
Buscar ==
    /\ pc = "buscar"
    /\ LET b == buscar(usuarios, uso.id_usuario)
       IN  /\ esta' = b[1]
           /\ posicion' = b[2]
    /\ pc' = "ubicar"
    /\ UNCHANGED <<usuarios, nlineas, leidos, linea, excepcion, uso, indice,
                   num_ordenar, i_ordenar, indice_del_mayor, antes>>
    /\ UNCHANGED fecha_vars

\* the rest of ubicar; indice = its result
Ubicar ==
    /\ pc = "ubicar"
    /\ LET u == ubicar(usuarios, uso.id_usuario, esta, posicion)
       IN  /\ usuarios' = u.usuarios
           /\ indice' = u.indice
    /\ esta' = FALSE          \* the locals of ubicar end with its call
    /\ posicion' = 0
    /\ pc' = "incrementar"
    /\ UNCHANGED <<nlineas, leidos, linea, excepcion, uso, num_ordenar,
                   i_ordenar, indice_del_mayor, antes>>
    /\ UNCHANGED fecha_vars

Incrementar ==
    /\ pc = "incrementar"
    /\ usuarios' =
         [usuarios EXCEPT ![indice + 1] =
            IF uso.estacion_retirada = uso.estacion_devolucion
            THEN incrementar_circulares(usuarios[indice + 1])
            ELSE incrementar_traslados(usuarios[indice + 1])]
    /\ linea' = <<>>          \* each is assigned anew before it is read again
    /\ uso' = SinUso
    /\ indice' = 0
    /\ pc' = "leer"
    /\ UNCHANGED <<nlineas, leidos, excepcion, esta, posicion, num_ordenar,
                   i_ordenar, indice_del_mayor, antes>>
    /\ UNCHANGED fecha_vars

\* f is exhausted: return usuarios; the caller calls ordenar(usuarios, k)
Devolver ==
    /\ pc = "leer"
    /\ \E k \in 0 .. MaxOrdenar : num_ordenar' = k
    /\ i_ordenar' = 0
    /\ antes' = usuarios
    /\ nlineas' = 0           \* f is left behind, and what was read from it
    /\ leidos' = EmptyBag
    /\ pc' = "ordenar"
    /\ UNCHANGED <<usuarios, linea, excepcion, uso, esta, posicion, indice,
                   indice_del_mayor>>
    /\ UNCHANGED fecha_vars

BuscarMayor ==
    /\ pc = "ordenar"
    /\ i_ordenar < Min(num_ordenar, Len(usuarios))
    /\ indice_del_mayor' = buscar_indice_del_mayor(usuarios, i_ordenar)
    /\ pc' = "permutar"
    /\ UNCHANGED <<usuarios, nlineas, leidos, linea, excepcion, uso, esta,
                   posicion, indice, num_ordenar, i_ordenar, antes>>
    /\ UNCHANGED fecha_vars

Intercambiar ==
    /\ pc = "permutar"
    /\ usuarios' = Permutar(usuarios, i_ordenar, indice_del_mayor)
    /\ i_ordenar' = i_ordenar + 1
    /\ pc' = "ordenar"
    /\ UNCHANGED <<nlineas, leidos, linea, excepcion, uso, esta, posicion,
                   indice, num_ordenar, indice_del_mayor, antes>>
    /\ UNCHANGED fecha_vars

FinOrdenar ==
    /\ pc = "ordenar"
    /\ i_ordenar >= Min(num_ordenar, Len(usuarios))
    /\ pc' = "mostrar"
    /\ UNCHANGED bizi_vars
    /\ UNCHANGED fecha_vars

Next ==
    \/ Leer
    \/ Buscar
    \/ Ubicar
    \/ Incrementar
    \/ Devolver
    \/ BuscarMayor
    \/ Intercambiar
    \/ FinOrdenar

Spec == Init /\ [][Next]_vars

---------------------------------------------------------------------------
(* Properties of pb_02_bizi.py *)

EnAgregacion == pc \in {"leer", "buscar", "ubicar", "incrementar", "error"}

Creciente(us) == \A k \in 1 .. Len(us) - 1 : us[k].id < us[k + 1].id

Presente(us, id) == \E k \in 1 .. Len(us) : us[k].id = id

Nuevo(id) == [id |-> id, num_usos_traslado |-> 0, num_usos_circular |-> 0]

Total(u) == u.num_usos_traslado + u.num_usos_circular

RECURSIVE SumaTotales(_)
SumaTotales(us) ==
    IF us = <<>> THEN 0 ELSE Total(Head(us)) + SumaTotales(Tail(us))

\* number of the uses read so far that are of id and circular (or not)
RECURSIVE CuentaUsos(_, _, _)
CuentaUsos(S, id, circular) ==
    IF S = {} THEN 0
    ELSE LET e == CHOOSE x \in S : TRUE
             suyo == /\ e.id_usuario = id
                     /\ (e.estacion_retirada = e.estacion_devolucion) = circular
         IN  (IF suyo THEN CopiesIn(e, leidos) ELSE 0)
             + CuentaUsos(S \ {e}, id, circular)

\* C1: while the list is being built by calls of ubicar, starting from the
\* empty list, it is strictly increasing by id: each id is less than the next
\* one, so no id occurs twice.
C1_Creciente == EnAgregacion => Creciente(usuarios)

\* an id greater than all those of a non-empty list has just been added
C1_Witness ==
    /\ pc = "incrementar"
    /\ Len(usuarios) >= 2
    /\ indice = Len(usuarios) - 1
    /\ usuarios[indice + 1] = Nuevo(uso.id_usuario)

\* C2: on a list strictly increasing by id, buscar returns (found, index)
\* with found true exactly when the id is in the list, index then being its
\* position; when found is false, index is the position of the first record
\* whose id is >= the id, or the length of the list if the id exceeds all.
C2_Buscar ==
    pc = "ubicar" =>
        LET id == uso.id_usuario
            n == Len(usuarios)
            mayores == {k \in 0 .. n - 1 : usuarios[k + 1].id >= id}
        IN  /\ esta <=> Presente(usuarios, id)
            /\ esta => posicion \in 0 .. n - 1 /\ usuarios[posicion + 1].id = id
            /\ ~esta =>
                 IF mayores = {} THEN posicion = n
                 ELSE posicion \in mayores /\ \A k \in mayores : posicion <= k

\* C3: ubicar returns an index at which, after the call, the record of the id
\* stands.  If the id was in the list, the list is unchanged; if not, the list
\* is the one before with the record (id, 0, 0) put in at that index, every
\* other record kept, in its order.  In the empty list and below every id the
\* index is 0; above every id it is the length the list had.
C3_Ubicar ==
    [][pc = "ubicar" =>
        LET id == uso.id_usuario
            n == Len(usuarios)
            p == indice' + 1
        IN  /\ p \in 1 .. Len(usuarios')
            /\ usuarios'[p].id = id
            /\ Presente(usuarios, id) => usuarios' = usuarios
            /\ ~Presente(usuarios, id) =>
                 /\ Len(usuarios') = n + 1
                 /\ usuarios'[p] = Nuevo(id)
                 /\ \A k \in 1 .. p - 1 : usuarios'[k] = usuarios[k]
                 /\ \A k \in p + 1 .. n + 1 : usuarios'[k] = usuarios[k - 1]
                 /\ n = 0 => indice' = 0
                 /\ (\A k \in 1 .. n : id < usuarios[k].id) => indice' = 0
                 /\ (\A k \in 1 .. n : id > usuarios[k].id) => indice' = n
    ]_vars

\* an id has just been added between two others that have uses counted
C3_Witness ==
    /\ pc = "incrementar"
    /\ Len(usuarios) = 3
    /\ indice = 1
    /\ usuarios[2] = Nuevo(uso.id_usuario)
    /\ Total(usuarios[1]) > 0
    /\ Total(usuarios[3]) > 0

\* C4: once the uses read so far have been processed, the list holds exactly
\* one record for each id among them and no other, whose num_usos_circular is
\* the number of that id's uses with equal stations and whose
\* num_usos_traslado is the number of those with different stations.
C4_Cuentas ==
    pc = "leer" =>
        LET S == BagToSet(leidos)
        IN  /\ {usuarios[k].id : k \in 1 .. Len(usuarios)}
                 = {e.id_usuario : e \in S}
            /\ \A j, k \in 1 .. Len(usuarios) :
                 usuarios[j].id = usuarios[k].id => j = k
            /\ \A k \in 1 .. Len(usuarios) :
                 /\ usuarios[k].num_usos_circular
                      = CuentaUsos(S, usuarios[k].id, TRUE)
                 /\ usuarios[k].num_usos_traslado
                      = CuentaUsos(S, usuarios[k].id, FALSE)

\* two ids, one of them with uses of both kinds
C4_Witness ==
    /\ pc = "leer"
    /\ Len(usuarios) = 2
    /\ \E k \in 1 .. 2 :
         /\ usuarios[k].num_usos_circular >= 1
         /\ usuarios[k].num_usos_traslado >= 2

\* C5: each time a use has been fully processed, the totals of all records
\* add up to the number of uses read; processing a use adds exactly 1.
C5_Conservacion ==
    /\ pc = "leer" => SumaTotales(usuarios) = nlineas
    /\ pc \in {"buscar", "ubicar", "incrementar"}
         => SumaTotales(usuarios) = nlineas - 1

\* several uses of several ids have been processed
C5_Witness ==
    /\ pc = "leer"
    /\ nlineas = 4
    /\ Len(usuarios) = 2
    /\ \E k \in 1 .. 2 : usuarios[k].num_usos_traslado >= 2

\* the number of slots ordenar fixes
Fijados == Min(num_ordenar, Len(usuarios))

\* position (0-based) that the record of id had when ordenar was called
PosAntes(id) == (CHOOSE k \in 1 .. Len(antes) : antes[k].id = id) - 1

\* C6: after ordenar, for every num_ordenar >= 0, the first m =
\* min(num_ordenar, n) slots hold the m records of largest total in
\* non-increasing order: within them the totals do not increase, and none of
\* them is less than the total of a later record; the records are those the
\* list held before.
C6_Ordenados ==
    pc = "mostrar" =>
        LET n == Len(usuarios)
        IN  /\ n = Len(antes)
            /\ {usuarios[k] : k \in 1 .. n} = {antes[k] : k \in 1 .. n}
            /\ \A a, b \in 1 .. n :
                 a < b /\ a <= Fijados => Total(usuarios[a]) >= Total(usuarios[b])

\* num_ordenar exceeds the length of a list that ordenar has rearranged
C6_Witness ==
    /\ pc = "mostrar"
    /\ num_ordenar > Len(usuarios)
    /\ Len(usuarios) = 3
    /\ usuarios # antes
    /\ Total(usuarios[1]) > Total(usuarios[3])

\* C7, as claimed: after ordenar, two records of equal total that both lie in
\* the first min(num_ordenar, n) slots stand in the order they had before.
C7_OrdenDeEmpates ==
    pc = "mostrar" =>
        \A a, b \in 1 .. Fijados :
            a < b /\ Total(usuarios[a]) = Total(usuarios[b])
                => PosAntes(usuarios[a].id) < PosAntes(usuarios[b].id)

\* the record now in slot a (1-based) was not moved to the right
NoDesplazado(a) == a - 1 <= PosAntes(usuarios[a].id)

\* C7, amended: after ordenar, two records of equal total that both lie in
\* the first min(num_ordenar, n) slots, neither of them further right than it
\* was before, stand in the order they had before.
C7_OrdenDeEmpatesNoDesplazados ==
    pc = "mostrar" =>
        \A a, b \in 1 .. Fijados :
            /\ a < b
            /\ Total(usuarios[a]) = Total(usuarios[b])
            /\ NoDesplazado(a)
            /\ NoDesplazado(b)
            => PosAntes(usuarios[a].id) < PosAntes(usuarios[b].id)

\* two records of equal total, both moved to the left, behind a larger one
C7_Witness ==
    /\ pc = "mostrar"
    /\ \E a, b \in 1 .. Fijados :
         /\ a < b
         /\ Total(usuarios[a]) = Total(usuarios[b])
         /\ a - 1 < PosAntes(usuarios[a].id)
         /\ b - 1 < PosAntes(usuarios[b].id)

CamposDe(lin) == Split(lin, DELIMITADOR)

CampoNoEntero(lin, k) ==
    k <= Len(CamposDe(lin)) /\ ~PyInt(CamposDe(lin)[k]).ok

AlgunCampoNoEntero(lin) ==
    CampoNoEntero(lin, 1) \/ CampoNoEntero(lin, 3) \/ CampoNoEntero(lin, 5)

Abortada ==
    /\ excepcion \in {"ValueError", "IndexError"}
    /\ SumaTotales(usuarios) = nlineas - 1
    /\ BagCardinality(leidos) = nlineas - 1
    /\ ~ENABLED Next

\* C8, as claimed: a line whose number of fields is not five, or whose field
\* 0, 2 or 4 is no integer, aborts the aggregation at that line with an
\* error; it is neither skipped nor counted, and nothing is read after it.
C8_Defectuosa ==
    pc \in {"buscar", "ubicar", "incrementar", "error"} =>
        /\ pc = "error"
             <=> Len(CamposDe(linea)) # 5 \/ AlgunCampoNoEntero(linea)
        /\ pc = "error" => Abortada

\* C8, amended: a line of fewer than five fields, or whose field 0, 2 or 4 is
\* no integer, aborts the aggregation at that line with an error; it is
\* neither skipped nor counted, and nothing is read after it.  A line of more
\* than five fields whose fields 0, 2 and 4 are integers is processed.
C8_DefectuosaPorFalta ==
    pc \in {"buscar", "ubicar", "incrementar", "error"} =>
        /\ pc = "error"
             <=> Len(CamposDe(linea)) < 5 \/ AlgunCampoNoEntero(linea)
        /\ pc = "error" => Abortada

\* a line with too few fields is met after uses of two ids were processed
C8_Witness ==
    /\ pc = "error"
    /\ excepcion = "IndexError"
    /\ Len(usuarios) = 2

---------------------------------------------------------------------------
(* pb_01_next_day.py *)

Texto(s) == <<s>>

ValueError(mensaje) == [tipo |-> "ValueError", valor |-> mensaje]

\* the number of days of month m of year y, counting the centuries as leap
dias_del_mes_sin_siglos(m, y) ==
    IF m = 2 THEN (IF y % 4 = 0 THEN 29 ELSE 28)
    ELSE IF m \in {4, 6, 9, 11} THEN 30
    ELSE 31

\* the value of t for month m of year y
dias_del_mes(m, y) ==
    IF m = 2
    THEN IF y % 400 = 0 THEN 29
         ELSE IF y % 100 = 0 THEN 28
         ELSE IF y % 4 = 0 THEN 29
         ELSE 28
    ELSE IF m \in {4, 6, 9, 11} THEN 30
    ELSE 31

next_date(s) ==
    LET tks == Split(Replace(Replace(s, "/", "-"), ".", "-"), "-")
    IN  IF Len(tks) # 3 THEN ValueError(Texto("Wrong format"))
        ELSE
        LET y == PyInt(tks[3])
            m == PyInt(tks[2])
            d == PyInt(tks[1])
            t == dias_del_mes(m.val, y.val)
        IN  IF ~y.ok THEN ValueError(Texto("invalid literal for int()"))
            ELSE IF y.val <= 1582
            THEN ValueError(Texto("Year must be greater than 1582."))
            ELSE IF ~m.ok THEN ValueError(Texto("invalid literal for int()"))
            ELSE IF m.val < 1 \/ m.val > 12
            THEN ValueError(Texto("Month must be between 1 and 12."))
            ELSE IF ~d.ok THEN ValueError(Texto("invalid literal for int()"))
            ELSE IF d.val < 1 \/ d.val > t
            THEN ValueError(Texto("Day must be between 1 and ")
                            \o PyStr(t) \o Texto("."))
            ELSE
            LET d1 == d.val + 1
                m1 == IF d1 > t THEN m.val + 1 ELSE m.val
                hoy == IF d1 > t THEN 1 ELSE d1
                mes == IF m1 > 12 THEN 1 ELSE m1
                anio == IF m1 > 12 THEN y.val + 1 ELSE y.val
            IN  [tipo |-> "str",
                 valor |-> Join(<<PyStr(hoy), PyStr(mes), PyStr(anio)>>, "-")]

\* the years of the dates: around the first year accepted, centuries that are
\* leap and that are not, leap and common years, and years before year 1
Anios ==
    (1580 .. 1585) \cup {-4, 0, 4, 1600, 1700, 1800, 1900, 1996, 1999, 2000,
                         2023, 2024, 2025, 2100, 2400}

Separadores == {"-", "/", "."}

InitNextDate ==
    /\ pc = "next_date"
    /\ InitBizi
    /\ \E d \in -1 .. MaxDia, m \in -1 .. MaxMes, y \in Anios :
         \E sep \in Separadores :
            /\ fecha = <<d, m, y>>
            /\ dt = Join(<<PyStr(d), PyStr(m), PyStr(y)>>, sep)
    /\ resultado = [tipo |-> "ninguno", valor |-> <<>>]

NextDateDevuelve ==
    /\ pc = "next_date"
    /\ next_date(dt).tipo = "str"
    /\ resultado' = next_date(dt)
    /\ pc' = "devuelto"
    /\ UNCHANGED <<fecha, dt>>
    /\ UNCHANGED bizi_vars

NextDateLanza ==
    /\ pc = "next_date"
    /\ next_date(dt).tipo = "ValueError"
    /\ resultado' = next_date(dt)
    /\ pc' = "lanzado"
    /\ UNCHANGED <<fecha, dt>>
    /\ UNCHANGED bizi_vars

NextNextDate == NextDateDevuelve \/ NextDateLanza

SpecNextDate == InitNextDate /\ [][NextNextDate]_vars

---------------------------------------------------------------------------
(* Properties of pb_01_next_day.py *)

Bisiesto(y) == (y % 4 = 0 /\ y % 100 # 0) \/ y % 400 = 0

\* the length of month m of year y in the Gregorian calendar
L(m, y) ==
    CASE m = 2 -> IF Bisiesto(y) THEN 29 ELSE 28
      [] m \in {4, 6, 9, 11} -> 30
      [] OTHER -> 31

FechaValida(d, m, y) == y > 1582 /\ m \in 1 .. 12 /\ d \in 1 .. L(m, y)

DiaSiguiente(d, m, y) ==
    IF d < L(m, y) THEN <<d + 1, m, y>>
    ELSE IF m < 12 THEN <<1, m + 1, y>>
    ELSE <<1, 1, y + 1>>

Escrita(f) == Join(<<PyStr(f[1]), PyStr(f[2]), PyStr(f[3])>>, "-")

\* C9: for a date d-m-y with y > 1582, 1 <= m <= 12 and 1 <= d <= L(m, y),
\* next_date returns the following day: d+1-m-y if d < L(m, y), 1-(m+1)-y
\* if d = L(m, y) and m < 12, 1-1-(y+1) for 31-12-y; for a day, month or
\* year outside these ranges it raises ValueError and returns no date.
C9_DiaSiguiente ==
    pc \in {"devuelto", "lanzado"} =>
        IF FechaValida(fecha[1], fecha[2], fecha[3])
        THEN /\ pc = "devuelto"
             /\ resultado.tipo = "str"
             /\ resultado.valor = Escrita(DiaSiguiente(fecha[1], fecha[2], fecha[3]))
        ELSE /\ pc = "lanzado"
             /\ resultado.tipo = "ValueError"

\* the day after 28 February of a century year that is not leap
C9_Witness ==
    /\ pc = "devuelto"
    /\ fecha = <<28, 2, 1900>>
    /\ resultado.valor = <<"1", "-", "3", "-", "1", "9", "0", "0">>

=============================================================================
